---- MODULE Spec2Model ----
\* A model of the zjs runtime (miniocean404-rust/v8-nodejs):
\*   - the module loader  (src/global/module_loader.rs),
\*   - the async task registry and its event loop (src/builtin/async_task.rs),
\*   - the runtime driver JsRuntime::execute (src/lib.rs).
\* The JavaScript engine and the tokio executor are the environment: the engine
\* calls resolve_module_callback once per static import while a module is
\* instantiated, scripts call create_async_task through the fs built-in, and the
\* executor runs every spawned future on some worker thread.
EXTENDS Integers, Sequences, FiniteSets, TLC

VARIABLES
    \* ---- runtime driver (src/lib.rs)
    pc,               \* position of JsRuntime::execute
    entry,            \* the entry module handle (None while there is none)
    global,           \* property names of the context's global object
    \* ---- file system and engine (environment)
    fs,               \* path -> file (status, static imports); fixed in a behaviour
    modules,          \* engine module handle -> [path, status]
    \* ---- ModuleLoader (src/global/module_loader.rs:12-23)
    id_to_path_map,   \* identity hash -> absolute path
    module_cache,     \* absolute path -> module handle
    builtin_modules,  \* specifier -> module handle
    \* ---- control state of the re-entrant loader calls
    stack,            \* get_or_compile_module activations being instantiated
    callee,           \* argument of a get_or_compile_module call about to start
    ret,              \* value a finished get_or_compile_module hands to its caller
    readCount,        \* history: fs::read_to_string calls per path
    resolutions,      \* history: what each resolve_module_callback call returned
    \* ---- TokioAsyncTaskManager (src/builtin/async_task.rs:61-65)
    NEXT_ID,          \* the static AtomicU32 of generate_task_id
    tasks,            \* DashMap<TaskID, AsyncTask>: task id -> promise resolver
    channel,          \* the mpsc channel: messages accepted and not yet received
    senders,          \* live Sender handles (the manager's own and the clones)
    \* ---- spawned tokio tasks and the engine's promises
    worker,           \* task id -> state and outcome of its spawned task
    promises,         \* resolver -> promise state, value, settle count, continuations
    microtasks,       \* the engine's microtask queue
    result,           \* what main returned (None before)
    events,           \* history: <<"complete" | "send", task id>> of the workers
    received,         \* history: task ids of the messages dequeued, in order
    settled,          \* history: task ids whose promise was settled, in order
    \* ---- the File built-in (src/builtin/fs.rs) and the script that uses it
    disk,             \* the file the script opens: can it be opened, and its bytes
    files,            \* open tokio::fs::File objects: fd -> cursor
    handles,          \* openFile calls: base resolver -> instance slot, then-promise
    ops,              \* task id -> the fs operation its future performs
    script,           \* the async main of the script: its handle, what it awaits
    observed,         \* history: each call of the script and what it saw of it
    \* ---- what the later parts of the runtime record
    main_fn,          \* what execute found under the name main (None before)
    id_calls,         \* generate_task_id calls of the threads of the process
    import_meta,      \* module handle -> the dirname its import.meta got
    \* ---- the registry of src/async_task.rs, fed the same messages
    legacy            \* what its run_event_loop dequeued, settled and left queued

loaderVars == <<fs, modules, id_to_path_map, module_cache, builtin_modules,
                stack, callee, ret, readCount, resolutions>>
asyncVars == <<NEXT_ID, tasks, channel, senders, worker, promises, microtasks,
               result, events, received, settled>>
fileVars == <<disk, files, handles, ops, script, observed>>
auxVars == <<main_fn, id_calls, import_meta, legacy>>
vars == <<pc, entry, global, loaderVars, asyncVars, fileVars, auxVars>>

\* ------------------------------------------------------------------ bounds
\* Depth of nested get_or_compile_module activations the native stack holds.
MaxStack == 4
\* Number of async tasks a script creates in one run.
MaxTasks == 2
\* Capacity of the completion channel. The code's capacity is 100
\* (async_task.rs:70); it is scaled down so that MaxTasks tasks can fill it.
ChannelCapacity == 1
\* Number of microtasks a continuation chain enqueues after the first.
MaxChain == 1
\* Number of calls on the file handle a script makes after openFile.
MaxOps == 4

\* ------------------------------------------------------------ paths (std::path)
None == <<>>
Some(x) == <<x>>
AppDir == "/app"
RootDir == "/"

Path(d, s, e) == [dir |-> d, stem |-> s, ext |-> e]
Specifier(p, s, e) == [prefix |-> p, stem |-> s, ext |-> e]

EntryPath == Path(AppDir, "a", "js")
\* The paths that may exist: three scripts in /app, an entry of /app named b
\* without extension (a file or a directory), and a script in the root.
Paths == {Path(AppDir, "a", "js"), Path(AppDir, "b", "js"), Path(AppDir, "c", "js"),
          Path(AppDir, "b", ""), Path(RootDir, "c", "js")}

\* Static import specifiers a module of the model may hold.
Specifiers == {Specifier("./", "a", "js"), Specifier("./", "b", ""),
               Specifier("./", "c", "js"), Specifier("/", "c", "js"),
               Specifier("", "fs", "")}

\* str::starts_with on the specifier text
StartsWith(s, ch) ==
    IF ch = "." THEN s.prefix \in {"./", "../", "."}
    ELSE IF ch = "/" THEN s.prefix = "/"
    ELSE FALSE

\* Path::parent
Parent(p) == p.dir

\* The directory dir/.. as Path::join writes it.
DotDot(dir) == IF dir = AppDir THEN "/app/.." ELSE "/.."

\* Path::join: an absolute argument replaces the base, a relative one is
\* appended to it.
Join(dir, s) ==
    IF s.prefix = "/" THEN Path(RootDir, s.stem, s.ext)
    ELSE IF s.prefix = "../" THEN Path(DotDot(dir), s.stem, s.ext)
    ELSE Path(dir, s.stem, s.ext)

\* PathBuf::set_extension: the old extension is dropped, the new one (if not
\* empty) is appended.
SetExtension(p, e) == [p EXCEPT !.ext = e]

\* fs::canonicalize(..).ok(): the normalized path if it exists, else None.
Normalize(dir) == IF dir \in {"/app/..", "/.."} THEN RootDir ELSE dir
Canonicalize(p) ==
    LET real == [p EXCEPT !.dir = Normalize(p.dir)]
    IN  IF real \in Paths /\ fs[real].status # "absent" THEN Some(real) ELSE None

\* const EXTENSIONS: [&str; 2] = ["", "js"]
EXTENSIONS == <<"", "js">>

\* EXTENSIONS.iter().find_map(..): the first candidate that canonicalizes.
FindMap(resolved) ==
    LET cand(i) == Canonicalize(SetExtension(resolved, EXTENSIONS[i]))
        hits == {i \in 1..Len(EXTENSIONS) : cand(i) # None}
    IN  IF hits = {} THEN None
        ELSE cand(CHOOSE i \in hits : \A j \in hits : i <= j)

\* ------------------------------------------------------------- file systems
ImportLists ==
    {<<>>} \cup {<<s>> : s \in Specifiers}
           \cup {<<s, t>> : s \in Specifiers, t \in Specifiers}
ShortImportLists == {<<>>} \cup {<<s>> : s \in Specifiers}

\* A file: it is absent, cannot be read as UTF-8 text, does not compile, compiles
\* but fails to link (an import names a missing export), or is a sound module.
Files(lists) ==
    {[status |-> st, imports |-> <<>>] : st \in {"absent", "unreadable", "syntax_error"}}
    \cup {[status |-> st, imports |-> l] : st \in {"ok", "link_error"}, l \in lists}

File(st, l) == [status |-> st, imports |-> l]
Absent == File("absent", <<>>)
Fs == Specifier("", "fs", "")

\* The file system with /app/a.js, /app/b.js and /app/c.js as given and nothing
\* else.
FileSystem(a, b, c) ==
    [p \in Paths |-> IF p = Path(AppDir, "a", "js") THEN a
                     ELSE IF p = Path(AppDir, "b", "js") THEN b
                     ELSE IF p = Path(AppDir, "c", "js") THEN c
                     ELSE Absent]

FileSystems ==
    {FileSystem(a, b, c) : a \in Files(ImportLists), b \in Files(ImportLists),
                           c \in Files(ShortImportLists)}

\* The file systems of the resolution runs: the entry imports up to two of the
\* specifiers below, among them ../c.js, ./b.js next to an entry named b, and
\* a second bare specifier.
Node_path == Specifier("", "path", "")
ResolveSpecifiers ==
    Specifiers \cup {Specifier("../", "c", "js"), Specifier("./", "b", "js"), Node_path}
ResolveImportLists ==
    {<<>>} \cup {<<s>> : s \in ResolveSpecifiers}
           \cup {<<s, t>> : s \in ResolveSpecifiers, t \in ResolveSpecifiers}
ResolveFileSystems ==
    {[FileSystem(File("ok", l), b, c) EXCEPT ![Path(AppDir, "b", "")] = d,
                                             ![Path(RootDir, "c", "js")] = r] :
        l \in ResolveImportLists,
        b \in {Absent, File("ok", <<>>), File("ok", <<Fs>>),
               File("ok", <<Specifier("./", "c", "js")>>)},
        c \in {Absent, File("ok", <<>>), File("ok", <<Node_path>>)},
        d \in {Absent, File("unreadable", <<>>), File("ok", <<>>)},
        r \in {Absent, File("ok", <<>>)}}

\* ------------------------------------------------------------ small helpers
Top == stack[Len(stack)]
Pop == SubSeq(stack, 1, Len(stack) - 1)
Put(f, k, v) == (k :> v) @@ f
NewModule == Len(modules) + 1
Idle == callee = None /\ ret = None
Returned(p, v) == Some([path |-> p, val |-> v])

\* ---------------------------------------------------------------- the loader
\* ModuleLoader::init_and_inject: the three maps start empty.
LoaderInit ==
    /\ modules = <<>>
    /\ id_to_path_map = <<>>
    /\ module_cache = <<>>
    /\ builtin_modules = <<>>
    /\ stack = <<>>
    /\ callee = None
    /\ ret = None
    /\ readCount = [p \in Paths |-> 0]
    /\ resolutions = <<>>

\* create_fs: the object template of the File built-in, with openFile.
create_fs == {"openFile"}

\* ModuleLoader::init_builtin_module: a synthetic module named after the
\* specifier whose evaluation step sets its one export, default, to a new
\* instance of create_fs, whatever the specifier is.
init_builtin_module(specifier_str) ==
    [path |-> None, status |-> "synthetic", name |-> specifier_str,
     default |-> create_fs]

\* ModuleLoader::load_builtin_module: builtin_modules.entry(s).or_insert_with(
\* init_builtin_module), a synthetic module for whatever the specifier is.
load_builtin_module_uncached(s) ==
    /\ modules' = Append(modules, init_builtin_module(s))
    /\ builtin_modules' = Put(builtin_modules, s, NewModule)
load_builtin_module(s) ==
    IF s \in DOMAIN builtin_modules
    THEN UNCHANGED <<builtin_modules, modules>>
    ELSE /\ modules' = Append(modules, init_builtin_module(s))
         /\ builtin_modules' = Put(builtin_modules, s, NewModule)

\* History of resolve_module_callback: the referrer's directory, the specifier
\* and the module returned (None when it returned nothing).
Resolved(dir, s, m) ==
    resolutions' = Append(resolutions, [referrer |-> dir, specifier |-> s, module |-> m])

\* instantiate_module returned None: get_or_compile_module logs and returns
\* None without caching; its id_to_path_map entry stays (module_loader.rs:138-144).
InstantiateFailedCached ==
    /\ modules' = [modules EXCEPT ![Top.module].status = "failed"]
    /\ module_cache' = Put(module_cache, Top.path, Top.module)
    /\ stack' = Pop
    /\ ret' = Returned(Top.path, None)
InstantiateFailed ==
    /\ modules' = [modules EXCEPT ![Top.module].status = "failed"]
    /\ module_cache' = module_cache
    /\ stack' = Pop
    /\ ret' = Returned(Top.path, None)

\* self.module_cache.get(absolute_path) finds a module (module_loader.rs:113).
cache_never_contains(p) == FALSE
cache_contains(p) == p \in DOMAIN module_cache

insert_path_skipped(id, p) == id_to_path_map

\* self.id_to_path_map.insert(module.get_identity_hash().get(), path)
\* (module_loader.rs:134-135).
insert_path(id, p) == Put(id_to_path_map, id, p)

\* ModuleLoader::get_or_compile_module up to its call of instantiate_module:
\* cache lookup, read, compile, id_to_path_map insert.
get_or_compile_module ==
    /\ pc = "load"
    /\ callee # None
    /\ callee' = None
    /\ LET p == callee[1] IN
       IF cache_contains(p)
       THEN /\ ret' = Returned(p, Some(module_cache[p]))
            /\ UNCHANGED <<pc, modules, id_to_path_map, module_cache, stack, readCount>>
       ELSE /\ readCount' = [readCount EXCEPT ![p] = @ + 1]
            /\ IF fs[p].status \in {"absent", "unreadable", "syntax_error"}
               THEN /\ ret' = Returned(p, None)
                    /\ UNCHANGED <<pc, modules, id_to_path_map, module_cache, stack>>
               ELSE /\ modules' = Append(modules, [path |-> Some(p), status |-> "compiled"])
                    /\ id_to_path_map' = insert_path(NewModule, p)
                    /\ IF Len(stack) < MaxStack
                       THEN /\ stack' = Append(stack, [path |-> p, module |-> NewModule, idx |-> 1])
                            /\ pc' = pc
                       ELSE /\ stack' = stack      \* native stack exhausted
                            /\ pc' = "aborted"
                    /\ UNCHANGED <<ret, module_cache>>
    /\ UNCHANGED <<global, auxVars, fileVars, entry, fs, builtin_modules, resolutions, asyncVars>>

\* The test that sends a specifier to load_builtin_module
\* (module_loader.rs:256): it starts neither with '.' nor with '/'.
is_builtin_unless_slash(s) == ~StartsWith(s, "/")
is_builtin(s) == ~StartsWith(s, ".") /\ ~StartsWith(s, "/")

referrer_path_or_entry(referrer_id) ==
    IF referrer_id \in DOMAIN id_to_path_map
    THEN Some(id_to_path_map[referrer_id]) ELSE Some(EntryPath)

\* module_loader.id_to_path_map.get(&referrer_id) (module_loader.rs:260-261).
referrer_path(referrer_id) ==
    IF referrer_id \in DOMAIN id_to_path_map
    THEN Some(id_to_path_map[referrer_id]) ELSE None

\* resolve_module_callback, called by the engine for the next static import of
\* the module being instantiated, up to its call of get_or_compile_module.
resolve_module_callback ==
    /\ pc = "load"
    /\ Idle
    /\ stack # <<>>
    /\ Top.idx <= Len(fs[Top.path].imports)
    /\ LET s == fs[Top.path].imports[Top.idx] IN
       IF is_builtin(s)
       THEN /\ load_builtin_module(s)
            /\ Resolved(Parent(Top.path), s, Some(builtin_modules'[s]))
            /\ stack' = [stack EXCEPT ![Len(stack)].idx = @ + 1]
            /\ UNCHANGED <<callee, ret, module_cache>>
       ELSE IF referrer_path(Top.module) = None
       THEN /\ InstantiateFailed
            /\ Resolved(Parent(Top.path), s, None)
            /\ UNCHANGED <<callee, builtin_modules>>
       ELSE LET referrer_dir == Parent(referrer_path(Top.module)[1])
                path == FindMap(Join(referrer_dir, s))
            IN  IF path = None
                THEN /\ InstantiateFailed
                     /\ Resolved(referrer_dir, s, None)
                     /\ UNCHANGED <<callee, builtin_modules>>
                ELSE /\ callee' = path
                     /\ UNCHANGED <<modules, stack, ret, builtin_modules,
                                    module_cache, resolutions>>
    /\ UNCHANGED <<global, auxVars, fileVars, pc, entry, fs, id_to_path_map, readCount, asyncVars>>

\* The nested get_or_compile_module returned: the callback hands its result to
\* the engine, which goes on with the next import or fails the instantiation.
resolve_module_return ==
    /\ pc = "load"
    /\ ret # None
    /\ stack # <<>>
    /\ Resolved(Parent(id_to_path_map[Top.module]), fs[Top.path].imports[Top.idx],
                ret[1].val)
    /\ IF ret[1].val = None
       THEN InstantiateFailed
       ELSE /\ stack' = [stack EXCEPT ![Len(stack)].idx = @ + 1]
            /\ ret' = None
            /\ UNCHANGED <<modules, module_cache>>
    /\ UNCHANGED <<global, auxVars, fileVars, pc, entry, fs, id_to_path_map, builtin_modules,
                   callee, readCount, asyncVars>>

\* Every import is resolved: the engine links the module; on success
\* get_or_compile_module caches it and returns it (module_loader.rs:146-151).
instantiate_module_finish ==
    /\ pc = "load"
    /\ Idle
    /\ stack # <<>>
    /\ Top.idx > Len(fs[Top.path].imports)
    /\ IF fs[Top.path].status = "link_error"
       THEN InstantiateFailed
       ELSE /\ modules' = [modules EXCEPT ![Top.module].status = "instantiated"]
            /\ module_cache' = Put(module_cache, Top.path, Top.module)
            /\ stack' = Pop
            /\ ret' = Returned(Top.path, Some(Top.module))
    /\ UNCHANGED <<global, auxVars, fileVars, pc, entry, fs, id_to_path_map, builtin_modules, callee,
                   readCount, resolutions, asyncVars>>

\* ModuleLoader::create_first_module, called by execute: canonicalize the entry
\* path, then get_or_compile_module; execute unwraps the result.
create_first_module ==
    /\ pc = "start"
    /\ IF Canonicalize(EntryPath) = None
       THEN pc' = "aborted" /\ callee' = None
       ELSE pc' = "load" /\ callee' = Canonicalize(EntryPath)
    /\ UNCHANGED <<global, auxVars, fileVars, entry, fs, modules, id_to_path_map, module_cache,
                   builtin_modules, stack, ret, readCount, resolutions, asyncVars>>

create_first_module_return ==
    /\ pc = "load"
    /\ stack = <<>>
    /\ ret # None
    /\ ret' = None
    /\ IF ret[1].val = None
       THEN pc' = "aborted" /\ entry' = entry
       ELSE pc' = "evaluate" /\ entry' = ret[1].val
    /\ UNCHANGED <<global, auxVars, fileVars, fs, modules, id_to_path_map, module_cache, builtin_modules,
                   stack, callee, readCount, resolutions, asyncVars>>

LoaderNext ==
    \/ create_first_module
    \/ get_or_compile_module
    \/ resolve_module_callback
    \/ resolve_module_return
    \/ instantiate_module_finish
    \/ create_first_module_return

\* ------------------------------------------------------- the async registry
\* AsyncTaskValue (async_task.rs:52-56). A String is a byte vector (a sequence
\* of bytes): valid UTF-8 text, or bytes that are no UTF-8 (file contents can be
\* either); utf8 is what String::from_utf8 will find.
String(text, utf8) == [tag |-> "String", bytes |-> text, utf8 |-> utf8]
Number(n) == [tag |-> "Number", i32 |-> n]
Undefined == [tag |-> "Undefined"]

\* AsyncTaskResult (async_task.rs:40-43)
Resolve(v) == [arm |-> "Resolve", value |-> v]
Reject(v) == [arm |-> "Reject", value |-> v]

\* Outcomes the futures of builtin/fs.rs produce: a byte count or a file
\* descriptor, file contents (here bytes that are no UTF-8), or the text of an
\* io::Error.
ENOENT == <<"No such file or directory">>
Outcomes == {Resolve(Number(5)), Resolve(String(<<"T">>, FALSE)),
             Reject(String(ENOENT, TRUE))}

\* The continuations (.then, await) a script chains on a promise it gets.
Conts == {0, 1}

\* AsyncTaskValue::into_v8: from_utf8(..).unwrap_or_default() makes the empty
\* string of bytes that are no UTF-8; a Number becomes a double.
into_v8(value) ==
    IF value.tag = "String"
    THEN [type |-> "string", text |-> IF value.utf8 THEN value.bytes ELSE <<>>]
    ELSE IF value.tag = "Number"
    THEN [type |-> "number", f64 |-> value.i32]
    ELSE [type |-> "undefined"]

TaskIds == 0..(MaxTasks - 1)

fetch_add_stuck(n) == n

\* NEXT_ID.fetch_add(1, Ordering::Relaxed): the new value of the counter; the
\* old one is the id returned. (The u32 wraps after 2^32 calls, far beyond
\* MaxTasks.)
fetch_add(n) == n + 1
Log(kind, id) == events' = Append(events, <<kind, id>>)

AsyncInit ==
    /\ NEXT_ID = 0
    /\ tasks = <<>>
    /\ channel = <<>>
    /\ senders = 1
    /\ worker = <<>>
    /\ promises = <<>>
    /\ microtasks = <<>>
    /\ result = None
    /\ events = <<>>
    /\ received = <<>>
    /\ settled = <<>>

\* TokioAsyncTaskManager::create_async_task: a fresh resolver, the next task id,
\* the registry entry, then tokio::spawn with a clone of the sender. The calling
\* script chains conts continuations on the promise it gets back. (worker keeps
\* the promise of each spawned task as history.)
create_async_task(conts) ==
    LET promise_resolver == Len(promises) + 1
        task_id == NEXT_ID
    IN  /\ promises' = Append(promises, [state |-> "pending", value |-> None,
                                         settled |-> 0, conts |-> conts])
        /\ NEXT_ID' = fetch_add(NEXT_ID)
        /\ tasks' = Put(tasks, task_id, promise_resolver)
        /\ worker' = Put(worker, task_id, [state |-> "running", outcome |-> None,
                                           promise |-> promise_resolver])
        /\ senders' = senders + 1

\* A script frame may call the fs built-in only if a bare specifier was imported,
\* and the model stops at MaxTasks tasks.
CanCreate == Len(promises) < MaxTasks /\ builtin_modules # <<>>

\* module.evaluate(scope): the top-level code of the graph runs; it may create
\* async tasks.
evaluate_script ==
    /\ pc = "evaluate"
    /\ CanCreate
    /\ \E conts \in Conts : create_async_task(conts)
    /\ UNCHANGED <<global, auxVars, fileVars, pc, entry, loaderVars, channel, microtasks, result, events,
                   received, settled>>

\* lib.rs:92-105: after evaluate, read the namespace's main; panic unless it is a
\* function.
check_main_skipped(found) == "main"

\* lib.rs:102-104: the is_function test; the panic ends execute.
check_main(found) == IF found = "function" THEN "main" ELSE "aborted"

get_main ==
    /\ pc = "evaluate"
    /\ \E found \in {"function", "absent", "not_callable"} :
          /\ main_fn' = Some(found)
          /\ pc' = check_main(found)
    /\ UNCHANGED <<global, id_calls, import_meta, legacy, fileVars, entry, loaderVars, asyncVars>>

\* main is running: it may create async tasks.
main_script ==
    /\ pc = "main"
    /\ CanCreate
    /\ \E conts \in Conts : create_async_task(conts)
    /\ UNCHANGED <<global, auxVars, fileVars, pc, entry, loaderVars, channel, microtasks, result, events,
                   received, settled>>

\* lib.rs:107-118: main_fn.call(..).unwrap(): main returns its value and execute
\* enters run_event_loop, or main throws and the unwrap panics.
main_return ==
    /\ pc = "main"
    /\ \E threw \in BOOLEAN :
          IF threw THEN pc' = "aborted" /\ result' = result
          ELSE pc' = "recv" /\ result' = Some("main_value")
    /\ UNCHANGED <<global, auxVars, fileVars, entry, loaderVars, NEXT_ID, tasks, channel, senders, worker,
                   promises, microtasks, events, received, settled>>

\* --------------------------------------------------- the File built-in (fs)
\* Bytes: "a" is an ASCII byte, "L" and "T" are the lead and the trail byte of
\* a two-byte UTF-8 character, "0" is the zero byte of a hole.
IsUtf8(b) ==
    \A i \in DOMAIN b :
        /\ b[i] = "L" => (i < Len(b) /\ b[i + 1] = "T")
        /\ b[i] = "T" => (i > 1 /\ b[i - 1] = "L")

\* Values of the script.
Str(b) == [type |-> "string", text |-> b]
Num(n) == [type |-> "number", f64 |-> n]
Undef == [type |-> "undefined"]
Symbol == [type |-> "symbol"]
Instance(r) == [type |-> "object", instance |-> r]

\* The file of the run: its directory is missing (open fails), or it can be
\* opened and holds these bytes (none if it does not exist yet).
Disks ==
    {[openable |-> FALSE, bytes |-> <<>>]}
    \cup {[openable |-> TRUE, bytes |-> b] :
             b \in {<<>>, <<"a", "a">>, <<"L", "T">>, <<"T">>}}

\* The calls a script makes: fs.openFile(path), then write, seek and content
\* on the handle it got.
\* A call is awaited, or its promise is dropped and the script goes on.
OpenFile == [kind |-> "openFile", arg |-> Str(<<"f">>), awaited |-> TRUE]
Write(v) == [kind |-> "write", arg |-> v, awaited |-> TRUE]
SeekTo(v) == [kind |-> "seek", arg |-> v, awaited |-> TRUE]
Seek(n) == SeekTo(Num(n))
Content == [kind |-> "content", arg |-> Undef, awaited |-> TRUE]
Return == [kind |-> "return", arg |-> Undef, awaited |-> TRUE]
Detached(op) == [op EXCEPT !.awaited = FALSE]
Calls == {Write(Str(<<"a">>)), Write(Str(<<"L", "T">>)), Write(Num(5)),
          Seek(0), Seek(1), Content}

\* The u32 of seek_file_pos has 2^32 values; the model scales the modulus down.
Uint32Modulus == 4

\* The calls of a script that tries the arguments of seek: inside the range,
\* below it, above it, undefined (NaN as a number), and a symbol, which no
\* conversion to a number accepts.
SeekCalls == {Seek(1), Seek(0 - 1), Seek(Uint32Modulus + 1), SeekTo(Undef),
              SeekTo(Symbol), Write(Str(<<"a">>)), Content}

\* The calls of a script that does not await all its calls, and their number.
MaxUnawaited == 2
RaceCalls == {Detached(Write(Str(<<"a">>))), Detached(Content), Detached(Seek(1)),
              Content}

\* File::write (fs.rs:42-47): write_all puts every byte of data at the cursor,
\* over what is there and beyond the end (a hole reads as zero bytes).
write_first_byte(bytes, cursor, data) ==
    LET end == IF Len(bytes) > cursor THEN Len(bytes) ELSE cursor + 1
    IN  [i \in 1..end |-> IF i = cursor + 1 /\ data # <<>> THEN data[1]
                          ELSE IF i <= Len(bytes) THEN bytes[i] ELSE "0"]
write(bytes, cursor, data) ==
    LET end == IF Len(bytes) > cursor + Len(data) THEN Len(bytes)
               ELSE cursor + Len(data)
    IN  [i \in 1..end |-> IF i > cursor /\ i <= cursor + Len(data) THEN data[i - cursor]
                          ELSE IF i <= Len(bytes) THEN bytes[i] ELSE "0"]

\* File::read_to_end (fs.rs:26-32): seek(Start(0)), then read to the end.
read_from_cursor(bytes, cursor) == SubSeq(bytes, cursor + 1, Len(bytes))
read_to_end(bytes, cursor) == bytes

cursor_restored(bytes, cursor) == cursor

\* Where file.read_to_end(&mut buf) leaves the cursor (fs.rs:30): at the end
\* of the file.
end_of_file(bytes, cursor) == Len(bytes)

\* File::seek (fs.rs:35-39): SeekFrom::Start(pos).
seek(cursor, pos) == pos

\* What the future of an fs operation does to the file and what it completes
\* with (fs.rs:109-115, 131-137, 167-174, 250-266). Only open can fail here.
Done(outcome, bytes, fds) ==
    [outcome |-> outcome, disk |-> [disk EXCEPT !.bytes = bytes], files |-> fds]
Run(op) ==
    IF op.kind = "open"
    THEN IF disk.openable
         THEN Done(Resolve(Number(Len(files) + 1)), disk.bytes,
                   Append(files, [cursor |-> 0]))
         ELSE Done(Reject(String(ENOENT, TRUE)), disk.bytes, files)
    ELSE LET cursor == files[op.fd].cursor IN
         IF op.kind = "seek"
         THEN Done(Resolve(Undefined), disk.bytes,
                   [files EXCEPT ![op.fd].cursor = seek(cursor, op.pos)])
         ELSE IF op.kind = "write"
         THEN Done(Resolve(Number(Len(op.data))), write(disk.bytes, cursor, op.data),
                   [files EXCEPT ![op.fd].cursor = cursor + Len(op.data)])
         ELSE LET content == read_to_end(disk.bytes, cursor) IN
              Done(Resolve(String(content, IsUtf8(content))), disk.bytes,
                   [files EXCEPT ![op.fd].cursor = end_of_file(disk.bytes, cursor)])

\* The same futures await by await. File::read_to_end awaits the seek to 0
\* and then the read (fs.rs:29-30); File::write awaits write_all and then
\* flush (fs.rs:44-45). Begin is the operation up to its second await, Finish
\* is the rest, on the file as it is by then.
TwoSteps(op) == op.kind \in {"content", "write"}
Begin(op) ==
    LET cursor == files[op.fd].cursor IN
    IF op.kind = "content"
    THEN Done(None, disk.bytes, [files EXCEPT ![op.fd].cursor = seek(cursor, 0)])
    ELSE Done(None, write(disk.bytes, cursor, op.data),
              [files EXCEPT ![op.fd].cursor = cursor + Len(op.data)])
Finish(op) ==
    LET cursor == files[op.fd].cursor IN
    IF op.kind = "content"
    THEN LET content == read_from_cursor(disk.bytes, cursor) IN
         Done(Resolve(String(content, IsUtf8(content))), disk.bytes,
              [files EXCEPT ![op.fd].cursor =
                   IF cursor > Len(disk.bytes) THEN cursor ELSE Len(disk.bytes)])
    ELSE Done(Resolve(Number(Len(op.data))), disk.bytes, files)

Operation(kind, fd, data, pos) == [kind |-> kind, fd |-> fd, data |-> data, pos |-> pos]

\* One entry of the script's history: the call, the cursor when it was made,
\* its task (none if the call threw), and what the script saw of its promise.
Entry(op, cursor, task, state) ==
    [op |-> op, cursor |-> cursor, task |-> task, state |-> state, value |-> None]

\* extract_internal_field_file_handler (fs.rs:81-95): the native file in
\* internal field 0 of the instance the method is called on.
extract_internal_field_file_handler(h) == handles[h[1]].slot[1]

\* A native function that creates an async task for operation o and returns
\* its promise to the script, which awaits it unless it drops the promise or
\* the call ends with an exception.
Spawn(o, call, obs) ==
    /\ create_async_task(IF call.op.awaited /\ call.state = "pending" THEN 1 ELSE 0)
    /\ ops' = Put(ops, NEXT_ID, o)
    /\ observed' = Append(obs, call)

\* open_file_handler (fs.rs:215-271): a new instance with an empty slot, the
\* async task that opens the file, and promise.then(promise_mapper).
open_file_handler(op, obs) ==
    /\ Spawn(Operation("open", 0, <<>>, 0), Entry(op, 0, Some(NEXT_ID), "pending"), obs)
    /\ handles' = Put(handles, Len(promises) + 1,
                      [slot |-> None, state |-> "pending", value |-> None, mapped |-> 0])

to_uint32_unreduced(arg) ==
    IF arg.type = "number" THEN Some(arg.f64)
    ELSE IF arg.type = "symbol" THEN None
    ELSE Some(0)

\* args.get(0).to_uint32(scope).map(|v| v.value()) (fs.rs:107): ToUint32 of a
\* number is the number modulo 2^32; undefined and a string that is no number
\* are NaN, which gives 0; the conversion of a symbol throws and gives None.
to_uint32(arg) ==
    IF arg.type = "number" THEN Some(arg.f64 % Uint32Modulus)
    ELSE IF arg.type = "symbol" THEN None
    ELSE Some(0)

\* seek_file_pos (fs.rs:100-118): the position is to_uint32 of the argument,
\* unwrap_or(0). When the conversion threw, the function goes on all the same
\* and spawns the seek to 0; whether the caller then gets the promise or the
\* exception the conversion left pending is the engine's choice.
seek_file_pos(op, obs, h) ==
    LET fd == extract_internal_field_file_handler(h)
        coerced == to_uint32(op.arg)
        pos == IF coerced = None THEN 0 ELSE coerced[1]
    IN  /\ \E state \in (IF coerced = None THEN {"pending", "thrown"} ELSE {"pending"}) :
              Spawn(Operation("seek", fd, <<>>, pos),
                    Entry(op, files[fd].cursor, Some(NEXT_ID), state), obs)
        /\ handles' = handles

\* read_file_content (fs.rs:123-140)
read_file_content(op, obs, h) ==
    LET fd == extract_internal_field_file_handler(h)
    IN  /\ Spawn(Operation("content", fd, <<>>, 0),
                 Entry(op, files[fd].cursor, Some(NEXT_ID), "pending"), obs)
        /\ handles' = handles

\* args.get(0).try_cast::<v8::String>().ok() (fs.rs:153-157)
to_string(arg) == Some(IF arg.type = "string" THEN arg.text ELSE <<"a">>)
try_cast_String(arg) == IF arg.type = "string" THEN Some(arg.text) ELSE None

\* write_file (fs.rs:145-177): an argument that is no string throws in the
\* caller's frame and the function returns; a string becomes an async task.
write_file(op, obs, h) ==
    LET fd == extract_internal_field_file_handler(h)
        new_content == try_cast_String(op.arg)
    IN  IF new_content = None
        THEN /\ observed' = Append(obs, Entry(op, files[fd].cursor, None, "thrown"))
             /\ UNCHANGED <<NEXT_ID, tasks, senders, worker, promises, ops, handles>>
        ELSE /\ Spawn(Operation("write", fd, new_content[1], 0),
                      Entry(op, files[fd].cursor, Some(NEXT_ID), "pending"), obs)
             /\ handles' = handles

\* The script calls a method of its file handle.
Call(op, obs, h) ==
    IF op.kind = "write" THEN write_file(op, obs, h)
    ELSE IF op.kind = "seek" THEN seek_file_pos(op, obs, h)
    ELSE read_file_content(op, obs, h)

\* main of a script that uses the File built-in: it calls fs.openFile and
\* awaits the promise.
main_file_script ==
    /\ pc = "main"
    /\ script.state = "ready"
    /\ Fs \in DOMAIN builtin_modules
    /\ open_file_handler(OpenFile, observed)
    /\ script' = [script EXCEPT !.state = "awaiting"]
    /\ UNCHANGED <<global, auxVars, pc, entry, loaderVars, channel, microtasks, result, events,
                   received, settled, disk, files>>

\* promise.then(scope, promise_mapper) (fs.rs:269): only a fulfilment handler,
\* so a rejection passes to the derived promise.
then_always(state) == "promise_mapper"
then(state) == IF state = "fulfilled" THEN "promise_mapper" ELSE "pass"

set_internal_field_skipped(fd) == None

\* instance.set_internal_field(0, File::new(fd).to_v8_external(scope))
\* (fs.rs:232-233): what slot 0 of the instance holds from then on.
set_internal_field(fd) == Some(fd)

\* The reaction of the promise openFile created, run as a microtask:
\* promise_mapper (fs.rs:226-236) makes the native File of the descriptor, stores
\* it in the instance's slot and fulfils the derived promise with the instance.
then_reaction(job, r) ==
    /\ IF then(promises[r].state) = "promise_mapper"
       THEN LET value == promises[r].value[1]
                fd == IF value.type = "number" THEN value.f64 ELSE 0
            IN  handles' = [handles EXCEPT ![r] =
                    [slot |-> set_internal_field(fd), state |-> "fulfilled",
                     value |-> Some(Instance(r)), mapped |-> handles[r].mapped + 1]]
       ELSE handles' = [handles EXCEPT ![r].state = promises[r].state,
                                       ![r].value = promises[r].value]
    /\ microtasks' = Append(Tail(microtasks), [job EXCEPT !.chain = 1])
    /\ UNCHANGED <<NEXT_ID, tasks, senders, worker, promises, ops, script, observed>>

\* Where the script is after a call: ended by the exception, suspended on the
\* promise, or running on with the promise dropped.
AfterCall(op, obs) ==
    IF obs[Len(obs)].state = "thrown" THEN "done"
    ELSE IF op.awaited THEN "awaiting" ELSE "running"

\* The continuation of the script's await, run as a microtask: the script sees
\* how the promise settled; a rejection ends main, otherwise it makes its next
\* call or returns.
await_continuation(job, r) ==
    LET promise == IF r \in DOMAIN handles THEN handles[r] ELSE promises[r]
        seen == [observed EXCEPT ![Len(observed)].state = promise.state,
                                 ![Len(observed)].value = promise.value]
        h == IF r \notin DOMAIN handles THEN script.handle
             ELSE IF promise.state = "fulfilled" THEN Some(promise.value[1].instance)
             ELSE None
    IN  /\ microtasks' = Tail(microtasks)
        /\ \E next \in script.repertoire \cup {Return} :
              IF promise.state = "rejected" \/ next = Return
              THEN /\ next = Return
                   /\ observed' = seen
                   /\ script' = [script EXCEPT !.handle = h, !.state = "done"]
                   /\ UNCHANGED <<NEXT_ID, tasks, senders, worker, promises, ops, handles>>
              ELSE /\ script.calls < script.limit
                   /\ Call(next, seen, h)
                   /\ script' = [script EXCEPT !.handle = h, !.calls = @ + 1,
                                               !.state = AfterCall(next, observed')]

\* A microtask of a promise of the File built-in.
file_microtask(job) ==
    LET r == worker[job.origin].promise
    IN  IF r \in DOMAIN handles /\ job.chain = 0
        THEN then_reaction(job, r)
        ELSE await_continuation(job, r)

\* The script goes on after a call whose promise it dropped: its next call on
\* the handle, or the end of main, within the same microtask.
script_continue ==
    /\ pc = "checkpoint"
    /\ script.state = "running"
    /\ \E next \in script.repertoire \cup {Return} :
          IF next = Return
          THEN /\ script' = [script EXCEPT !.state = "done"]
               /\ UNCHANGED <<NEXT_ID, tasks, senders, worker, promises, ops, handles,
                              observed>>
          ELSE /\ script.calls < script.limit
               /\ Call(next, observed, script.handle)
               /\ script' = [script EXCEPT !.calls = @ + 1,
                                           !.state = AfterCall(next, observed')]
    /\ UNCHANGED <<global, auxVars, pc, entry, loaderVars, channel, microtasks, result, events,
                   received, settled, disk, files>>

\* The script of a run and the calls it chooses from.
FileInitWith(d, repertoire, limit) ==
    /\ disk = d
    /\ files = <<>>
    /\ handles = <<>>
    /\ ops = <<>>
    /\ script = [handle |-> None, calls |-> 0, state |-> "ready",
                 repertoire |-> repertoire, limit |-> limit]
    /\ observed = <<>>

FileInit(d) == FileInitWith(d, Calls, MaxOps)

\* The spawned tokio task of a two-step fs operation reaches its second await:
\* the executor may run other tasks before it goes on.
future_begin(t) ==
    /\ pc \notin {"aborted", "returned"}
    /\ t \in DOMAIN ops
    /\ worker[t].state = "running"
    /\ TwoSteps(ops[t])
    /\ worker' = [worker EXCEPT ![t].state = "accessing"]
    /\ disk' = Begin(ops[t]).disk
    /\ files' = Begin(ops[t]).files
    /\ UNCHANGED <<global, auxVars, pc, entry, loaderVars, NEXT_ID, tasks, channel, senders, promises,
                   microtasks, result, events, received, settled, handles, ops, script,
                   observed>>

\* The spawned tokio task, first half: async_block.await completes with an
\* outcome (async_task.rs:134): what its fs operation gives, or any outcome
\* for the task of a script the model does not follow.
future_complete(t) ==
    /\ pc \notin {"aborted", "returned"}
    /\ t \in DOMAIN worker
    /\ worker[t].state \in {"running", "accessing"}
    /\ IF t \in DOMAIN ops
       THEN LET run == IF worker[t].state = "accessing" THEN Finish(ops[t])
                       ELSE Run(ops[t])
            IN  /\ worker' = [worker EXCEPT ![t].state = "done",
                                            ![t].outcome = Some(run.outcome)]
                /\ disk' = run.disk
                /\ files' = run.files
       ELSE /\ \E o \in Outcomes :
                  worker' = [worker EXCEPT ![t].state = "done", ![t].outcome = Some(o)]
            /\ UNCHANGED <<disk, files>>
    /\ Log("complete", t)
    /\ UNCHANGED <<global, auxVars, pc, entry, loaderVars, NEXT_ID, tasks, channel, senders, promises,
                   microtasks, result, received, settled, handles, ops, script, observed>>

has_capacity_unbounded(ch) == TRUE

\* mpsc::channel(100) (async_task.rs:70): a send is accepted only while fewer
\* messages than the capacity are queued.
has_capacity(ch) == Len(ch) < ChannelCapacity

\* The spawned tokio task, second half: channel_sender.send(message).await waits
\* while the channel is full; then the task ends and drops its sender clone
\* (async_task.rs:135-139).
send(t) ==
    /\ pc \notin {"aborted", "returned"}
    /\ t \in DOMAIN worker
    /\ worker[t].state = "done"
    /\ has_capacity(channel)
    /\ channel' = Append(channel, [task_id |-> t, payload |-> worker[t].outcome[1]])
    /\ worker' = [worker EXCEPT ![t].state = "sent"]
    /\ senders' = senders - 1
    /\ Log("send", t)
    /\ UNCHANGED <<global, auxVars, fileVars, pc, entry, loaderVars, NEXT_ID, tasks, promises, microtasks, result,
                   received, settled>>

\* The microtasks the engine enqueues when the promise of resolver r settles:
\* one per continuation chained on it.
Reactions(r, id) == [i \in 1..promises[r].conts |-> [origin |-> id, chain |-> 0]]

\* self.tasks.remove(&message.task_id): the key looked up (async_task.rs:150).
task_key_oldest(message) ==
    IF tasks = <<>> THEN message.task_id
    ELSE CHOOSE id \in DOMAIN tasks : \A other \in DOMAIN tasks : id <= other
task_key(message) == message.task_id

\* DashMap::remove: the registry without the entry.
get_task(id) == tasks
remove_task(id) == [other \in DOMAIN tasks \ {id} |-> tasks[other]]

\* match message.payload: Resolve calls resolve, Reject calls reject
\* (async_task.rs:155-166).
settle_swapped(payload) == IF payload.arm = "Resolve" THEN "rejected" ELSE "fulfilled"
settle(payload) == IF payload.arm = "Resolve" THEN "fulfilled" ELSE "rejected"

\* What follows a settlement: isolate.perform_microtask_checkpoint()
\* (async_task.rs:169).
after_settlement_no_checkpoint == "recv"
after_settlement == "checkpoint"

\* execute awaits run_event_loop only after main_fn.call has returned
\* (lib.rs:107-118).
event_loop_entered_early == pc \in {"evaluate", "main", "recv"}
event_loop_entered == pc = "recv"

\* One iteration of run_event_loop up to the checkpoint (async_task.rs:148-166):
\* recv().await yields the oldest message, or None once the channel is empty
\* and every sender is dropped; the entry is removed and the promise settled.
run_event_loop ==
    /\ event_loop_entered
    /\ channel # <<>> \/ senders = 0
    /\ IF channel = <<>>
       THEN /\ pc' = "returned"
            /\ UNCHANGED <<tasks, channel, promises, microtasks, received, settled>>
       ELSE LET message == Head(channel)
                id == task_key(message)
            IN
            /\ channel' = Tail(channel)
            /\ IF id \in DOMAIN tasks
               THEN LET r == tasks[id] IN
                    /\ tasks' = remove_task(id)
                    /\ promises' = [promises EXCEPT ![r] =
                          [@ EXCEPT !.state = settle(message.payload),
                                    !.value = Some(into_v8(message.payload.value)),
                                    !.settled = @ + 1]]
                    /\ microtasks' = microtasks \o Reactions(r, id)
                    /\ settled' = Append(settled, id)
                    /\ pc' = after_settlement
               ELSE /\ pc' = "recv"
                    /\ UNCHANGED <<tasks, promises, microtasks, settled>>
            /\ received' = Append(received, message.task_id)
    /\ UNCHANGED <<global, auxVars, fileVars, entry, loaderVars, NEXT_ID, senders, worker, result, events>>

\* isolate.perform_microtask_checkpoint() (async_task.rs:169): the engine runs
\* the queue until it is empty; a continuation may enqueue a further microtask
\* and may call the fs built-in. The loop then goes back to recv.
perform_microtask_checkpoint ==
    /\ pc = "checkpoint"
    /\ script.state # "running"
    /\ IF microtasks = <<>>
       THEN /\ pc' = "recv"
            /\ UNCHANGED <<NEXT_ID, tasks, senders, worker, promises, microtasks,
                           handles, ops, script, observed>>
       ELSE LET job == Head(microtasks) IN
            /\ pc' = pc
            /\ IF job.origin \in DOMAIN ops
               THEN file_microtask(job)
               ELSE /\ \E more \in BOOLEAN :
                          /\ more => job.chain < MaxChain
                          /\ microtasks' = IF more
                                THEN Append(Tail(microtasks), [job EXCEPT !.chain = @ + 1])
                                ELSE Tail(microtasks)
                    /\ \E create \in BOOLEAN :
                          IF create
                          THEN CanCreate /\ \E conts \in Conts : create_async_task(conts)
                          ELSE UNCHANGED <<NEXT_ID, tasks, senders, worker, promises>>
                    /\ UNCHANGED <<handles, ops, script, observed>>
    /\ UNCHANGED <<global, auxVars, entry, loaderVars, channel, result, events, received, settled,
                   disk, files>>

\* ------------------------------------------------------- the specifications
\* The import graphs of the runs of execute: an entry without imports, one that
\* imports fs, a two-module graph, a missing import, an import cycle.
RuntimeFileSystems ==
    {FileSystem(File("ok", <<>>), Absent, Absent),
     FileSystem(File("ok", <<Fs>>), Absent, Absent),
     FileSystem(File("ok", <<Specifier("./", "b", ""), Fs>>), File("ok", <<Fs>>), Absent),
     FileSystem(File("ok", <<Specifier("./", "c", "js")>>), Absent, Absent),
     FileSystem(File("ok", <<Specifier("./", "b", "")>>),
                File("ok", <<Specifier("./", "a", "js")>>), Absent)}

\* ------------------------------------------------- generate_task_id callers
\* NEXT_ID is a static of the process: every thread that runs a JsRuntime draws
\* its task ids from it. Number of such threads, and of the calls they make.
MaxThreads == 2
MaxCalls == 4

Threads == 1..MaxThreads

\* A call is pending from the moment it starts until its fetch_add; started is
\* the number of calls that had returned when it started.
generate_task_id_call(t) ==
    /\ id_calls.pending[t] = None
    /\ Len(id_calls.returned)
         + Cardinality({u \in Threads : id_calls.pending[u] # None}) < MaxCalls
    /\ id_calls' = [id_calls EXCEPT !.pending[t] = Some(Len(id_calls.returned))]
    /\ UNCHANGED <<pc, entry, global, loaderVars, asyncVars, fileVars, main_fn, import_meta,
                   legacy>>

\* async_task.rs:80-83: NEXT_ID.fetch_add(1, Ordering::Relaxed), one atomic
\* read-modify-write, returns the value before the addition.
generate_task_id(t) ==
    /\ id_calls.pending[t] # None
    /\ NEXT_ID' = fetch_add(NEXT_ID)
    /\ id_calls' = [pending |-> [id_calls.pending EXCEPT ![t] = None],
                    returned |-> Append(id_calls.returned,
                                    [thread |-> t, id |-> NEXT_ID,
                                     started |-> id_calls.pending[t][1]])]
    /\ UNCHANGED <<pc, entry, global, loaderVars, tasks, channel, senders, worker,
                   promises, microtasks, result, events, received, settled,
                   fileVars, main_fn, import_meta, legacy>>

AuxInit ==
    /\ main_fn = None
    /\ id_calls = [pending |-> [t \in Threads |-> None], returned |-> <<>>]
    /\ import_meta = <<>>
    /\ legacy = [received |-> <<>>, settled |-> <<>>, promises |-> <<>>,
                 microtasks |-> <<>>]

\* inject_global_values: the one property the global template gets is print.
inject_global_values == {"print"}

Init ==
    /\ pc = "start"
    /\ entry = None
    /\ global = inject_global_values
    /\ fs \in RuntimeFileSystems
    /\ LoaderInit
    /\ AsyncInit
    /\ AuxInit
    /\ FileInit([openable |-> TRUE, bytes |-> <<>>])

Next ==
    \/ LoaderNext
    \/ evaluate_script
    \/ get_main
    \/ main_script
    \/ main_return
    \/ run_event_loop
    \/ perform_microtask_checkpoint
    \/ \E t \in TaskIds : future_complete(t)
    \/ \E t \in TaskIds : send(t)

Spec == Init /\ [][Next]_vars

\* The runtime thread runs on while it can, and the tokio executor runs every
\* spawned task.
FairSpec ==
    /\ Spec
    /\ WF_vars(LoaderNext \/ evaluate_script \/ get_main \/ main_script \/ main_return
               \/ run_event_loop \/ perform_microtask_checkpoint)
    /\ \A t \in TaskIds : WF_vars(future_complete(t) \/ send(t))

LoaderSpecInit ==
    /\ pc = "start"
    /\ entry = None
    /\ global = inject_global_values
    /\ fs \in FileSystems
    /\ LoaderInit
    /\ AsyncInit
    /\ AuxInit
    /\ FileInit([openable |-> TRUE, bytes |-> <<>>])

LoaderSpec == LoaderSpecInit /\ [][LoaderNext]_vars

\* The loader alone over the file systems of the resolution runs.
ResolveSpecInit ==
    /\ pc = "start"
    /\ entry = None
    /\ global = inject_global_values
    /\ fs \in ResolveFileSystems
    /\ LoaderInit
    /\ AsyncInit
    /\ AuxInit
    /\ FileInit([openable |-> TRUE, bytes |-> <<>>])

ResolveSpec == ResolveSpecInit /\ [][LoaderNext]_vars

\* The runs of a script that imports fs, opens a file and works on its handle,
\* awaiting every call.
FileSpecInit ==
    /\ pc = "start"
    /\ entry = None
    /\ global = inject_global_values
    /\ fs = FileSystem(File("ok", <<Specifier("./", "b", ""), Fs>>), File("ok", <<>>),
                       Absent)
    /\ LoaderInit
    /\ AsyncInit
    /\ AuxInit
    /\ \E d \in Disks : FileInit(d)

FileTaskIds == 0..MaxOps

FileNext ==
    \/ LoaderNext
    \/ get_main
    \/ main_file_script
    \/ main_return
    \/ run_event_loop
    \/ perform_microtask_checkpoint
    \/ \E t \in FileTaskIds : future_complete(t)
    \/ \E t \in FileTaskIds : send(t)

FileSpec == FileSpecInit /\ [][FileNext]_vars

\* The runs of a script that opens a file and tries the arguments of seek.
SeekSpecInit ==
    /\ pc = "start"
    /\ entry = None
    /\ global = inject_global_values
    /\ fs = FileSystem(File("ok", <<Specifier("./", "b", ""), Fs>>), File("ok", <<>>),
                       Absent)
    /\ LoaderInit
    /\ AsyncInit
    /\ AuxInit
    /\ \E b \in {<<>>, <<"a", "a">>} :
          FileInitWith([openable |-> TRUE, bytes |-> b], SeekCalls, MaxOps)

SeekSpec == SeekSpecInit /\ [][FileNext]_vars

\* The runs of a script that opens a file and calls its handle without
\* awaiting every call; the executor runs the spawned futures on its worker
\* threads, await by await.
RaceSpecInit ==
    /\ pc = "start"
    /\ entry = None
    /\ global = inject_global_values
    /\ fs = FileSystem(File("ok", <<Specifier("./", "b", ""), Fs>>), File("ok", <<>>),
                       Absent)
    /\ LoaderInit
    /\ AsyncInit
    /\ AuxInit
    /\ FileInitWith([openable |-> TRUE, bytes |-> <<"a", "a">>], RaceCalls, MaxUnawaited)

RaceNext ==
    \/ FileNext
    \/ script_continue
    \/ \E t \in FileTaskIds : future_begin(t)

RaceSpec == RaceSpecInit /\ [][RaceNext]_vars

\* The threads of a process drawing task ids from the one counter.
IdNext == \E t \in Threads : generate_task_id_call(t) \/ generate_task_id(t)

IdSpec == Init /\ [][IdNext]_vars

\* The loader and the driver once execute has loaded a script that imports fs
\* and its main has returned: the event loop is receiving.
LoopEntered ==
    /\ pc = "recv"
    /\ entry = Some(1)
    /\ global = inject_global_values
    /\ fs = FileSystem(File("ok", <<Fs>>), Absent, Absent)
    /\ modules = <<[path |-> Some(EntryPath), status |-> "instantiated"],
                   init_builtin_module(Fs)>>
    /\ id_to_path_map = (1 :> EntryPath)
    /\ module_cache = (EntryPath :> 1)
    /\ builtin_modules = (Fs :> 2)
    /\ stack = <<>>
    /\ callee = None
    /\ ret = None
    /\ readCount = [p \in Paths |-> IF p = EntryPath THEN 1 ELSE 0]
    /\ resolutions = <<[referrer |-> AppDir, specifier |-> Fs, module |-> Some(2)]>>
    /\ result = Some("main_value")
    /\ main_fn = Some("function")

\* The event loop of a process whose NEXT_ID has wrapped around: task id 0 was
\* drawn a second time while its first task was pending, so the insert of
\* create_async_task replaced the entry of id 0 (async_task.rs:122-127). The
\* message of the first task has been received: it removed the entry and
\* settled the resolver of the second task (promise 2). The second task's
\* future is still running and will send a message with id 0; a third task
\* (id 1, promise 3) is pending.
OrphanSpecInit ==
    /\ LoopEntered
    /\ \E first \in Outcomes : \E conts \in Conts :
          /\ promises = <<[state |-> "pending", value |-> None, settled |-> 0, conts |-> 0],
                          [state |-> settle(first), value |-> Some(into_v8(first.value)),
                           settled |-> 1, conts |-> 0],
                          [state |-> "pending", value |-> None, settled |-> 0,
                           conts |-> conts]>>
    /\ NEXT_ID = 2
    /\ tasks = (1 :> 3)
    /\ worker = (0 :> [state |-> "running", outcome |-> None, promise |-> 2])
                 @@ (1 :> [state |-> "running", outcome |-> None, promise |-> 3])
    /\ channel = <<>>
    /\ senders = 3
    /\ microtasks = <<>>
    /\ events = << <<"complete", 0>>, <<"send", 0>> >>
    /\ received = <<0>>
    /\ settled = <<0>>
    /\ FileInit([openable |-> TRUE, bytes |-> <<>>])
    /\ id_calls = [pending |-> [t \in Threads |-> None], returned |-> <<>>]
    /\ import_meta = <<>>
    /\ legacy = [received |-> <<>>, settled |-> <<>>, promises |-> <<>>,
                 microtasks |-> <<>>]

OrphanNext ==
    \/ run_event_loop
    \/ perform_microtask_checkpoint
    \/ \E t \in TaskIds : future_complete(t)
    \/ \E t \in TaskIds : send(t)

OrphanSpec == OrphanSpecInit /\ [][OrphanNext]_vars

\* resolve_module_callback as the engine may call it: the loader has compiled
\* the entry module and the engine instantiates it; the referrer the engine
\* passes is recorded in id_to_path_map, as get_or_compile_module leaves it, or
\* is a module the map has no entry for.
ReferrerSpecInit ==
    /\ pc = "load"
    /\ entry = None
    /\ global = inject_global_values
    /\ fs \in ResolveFileSystems
    /\ modules = <<[path |-> Some(EntryPath), status |-> "compiled"]>>
    /\ id_to_path_map \in {<<>>, (1 :> EntryPath)}
    /\ module_cache = <<>>
    /\ builtin_modules = <<>>
    /\ stack = <<[path |-> EntryPath, module |-> 1, idx |-> 1]>>
    /\ callee = None
    /\ ret = None
    /\ readCount = [p \in Paths |-> IF p = EntryPath THEN 1 ELSE 0]
    /\ resolutions = <<>>
    /\ AsyncInit
    /\ AuxInit
    /\ FileInit([openable |-> TRUE, bytes |-> <<>>])

ReferrerNext ==
    \/ get_or_compile_module
    \/ resolve_module_callback
    \/ resolve_module_return
    \/ instantiate_module_finish
    \/ create_first_module_return

ReferrerSpec == ReferrerSpecInit /\ [][ReferrerNext]_vars

\* host_initialize_import_meta_object_callback, called by the engine the first
\* time the code of module m reads import.meta while the graph is evaluated:
\* id_to_path_map.get(&module_id).unwrap().parent().unwrap() becomes
\* meta.dirname; the unwrap of a missing entry panics.
host_initialize_import_meta_object_callback(m) ==
    /\ pc = "evaluate"
    /\ modules[m].status = "instantiated"
    /\ modules[m].path # None
    /\ m \notin DOMAIN import_meta
    /\ IF m \in DOMAIN id_to_path_map
       THEN /\ import_meta' = Put(import_meta, m, Some(Parent(id_to_path_map[m])))
            /\ pc' = pc
       ELSE /\ import_meta' = Put(import_meta, m, None)
            /\ pc' = "aborted"
    /\ UNCHANGED <<entry, global, loaderVars, asyncVars, fileVars, main_fn, id_calls,
                   legacy>>

\* The loader, then the evaluation of the graph with its import.meta reads.
MetaNext ==
    \/ LoaderNext
    \/ \E m \in DOMAIN modules : host_initialize_import_meta_object_callback(m)

MetaSpec == ResolveSpecInit /\ [][MetaNext]_vars

\* ------------------------------------------------------------------ claims
Range(s) == {s[i] : i \in DOMAIN s}
Index(s, x) == CHOOSE i \in DOMAIN s : s[i] = x
Happened(kind, t) == <<kind, t>> \in Range(events)
Pos(kind, t) == Index(events, <<kind, t>>)
IsSend(e) == e[1] = "send"
Sends == SelectSeq(events, IsSend)
Arrived == [i \in DOMAIN Sends |-> Sends[i][2]]
PromiseOf(t) == promises[worker[t].promise]
SettledBefore(x, y) ==
    y \in Range(settled) => x \in Range(settled) /\ Index(settled, x) < Index(settled, y)
LoopRunning == pc \in {"recv", "checkpoint"}

\* C1: once main has returned (and with every spawned future completing, which
\* the fairness of FairSpec gives), run_event_loop terminates and execute
\* returns main's value to the host.
C1_ExecuteReturns ==
    [](result # None => <>(pc = "returned" /\ result = Some("main_value")))

\* C2: every microtask in the queue stems from the promise settled last, and the
\* queue is empty each time the loop goes back to receive: the continuations of
\* A have all run before B's message is dequeued.
C2_MicrotaskOrdering ==
    /\ pc = "recv" => microtasks = <<>>
    /\ \A i \in DOMAIN microtasks :
          settled # <<>> /\ microtasks[i].origin = settled[Len(settled)]

\* C2 witness: the loop is back at recv after settling a promise that had a
\* continuation, and the next message is waiting in the channel.
C2_Witness ==
    /\ pc = "recv"
    /\ settled # <<>>
    /\ PromiseOf(settled[Len(settled)]).conts > 0
    /\ channel # <<>>

RegistryBijection ==
    /\ DOMAIN tasks \subseteq DOMAIN worker
    /\ Len(promises) = Cardinality(DOMAIN worker)
    /\ \A id \in DOMAIN worker :
          /\ id \in DOMAIN tasks <=> PromiseOf(id).state = "pending"
          /\ id \in DOMAIN tasks => tasks[id] = worker[id].promise
    /\ \A a \in DOMAIN tasks : \A b \in DOMAIN tasks : a # b => tasks[a] # tasks[b]
SettlesWithRemoval ==
    \A r \in DOMAIN promises :
        (promises[r].state = "pending" /\ promises'[r].state # "pending")
        <=> (\E id \in DOMAIN tasks : tasks[id] = r /\ id \notin DOMAIN tasks')
C5_RegistryBijection == []RegistryBijection /\ [][SettlesWithRemoval]_vars

\* C5 witness: one promise is settled and gone from the registry while another
\* task is still pending in it.
C5_Witness == settled # <<>> /\ tasks # <<>>

\* C6: a promise is settled at most once, with the arm and the (bridged) value
\* of its own task's outcome; and when the event loop runs, from some point on
\* every task whose future has completed has its promise settled.
OwnOutcome ==
    \A t \in DOMAIN worker :
        /\ PromiseOf(t).settled <= 1
        /\ PromiseOf(t).state # "pending" =>
              /\ worker[t].outcome # None
              /\ PromiseOf(t).settled = 1
              /\ PromiseOf(t).state = "fulfilled" <=> worker[t].outcome[1].arm = "Resolve"
              /\ PromiseOf(t).state = "rejected" <=> worker[t].outcome[1].arm = "Reject"
              /\ PromiseOf(t).value = Some(into_v8(worker[t].outcome[1].value))
C6_ExactlyOnceDelivery ==
    /\ []OwnOutcome
    /\ <>[](LoopRunning =>
             \A t \in DOMAIN worker :
                 worker[t].state # "running" => PromiseOf(t).settled = 1)

\* C6 witness: one promise rejected and another fulfilled, each settled once.
C6_Witness ==
    \E t \in DOMAIN worker : \E u \in DOMAIN worker :
        /\ PromiseOf(t).state = "rejected" /\ PromiseOf(t).settled = 1
        /\ PromiseOf(u).state = "fulfilled" /\ PromiseOf(u).settled = 1

\* C7: until main has returned no message is dequeued and no promise of the
\* registry is settled.
C7_MainBeforeCompletions ==
    result = None =>
        /\ received = <<>>
        /\ settled = <<>>
        /\ \A r \in DOMAIN promises : promises[r].state = "pending"

\* C7 witness: a completion message is already in the channel while main is
\* still running.
C7_Witness == pc = "main" /\ channel # <<>>

\* C8: every file is read at most once and compiled into at most one module, so
\* every get_or_compile_module(p) that returns a module returns the same one.
C8_CacheIdempotence ==
    \A p \in Paths :
        /\ readCount[p] <= 1
        /\ Cardinality({m \in DOMAIN modules : modules[m].path = Some(p)}) <= 1

\* C9: every module_cache entry is a module compiled from that path and
\* instantiated; a get_or_compile_module that returns nothing has cached
\* nothing for its path.
C9_CacheHoldsInstantiated ==
    /\ \A p \in DOMAIN module_cache :
          /\ module_cache[p] \in DOMAIN modules
          /\ modules[module_cache[p]].path = Some(p)
          /\ modules[module_cache[p]].status = "instantiated"
    /\ (ret # None /\ ret[1].val = None) => ret[1].path \notin DOMAIN module_cache

\* C9 witness: get_or_compile_module has just returned nothing for a module
\* whose instantiation failed, while another module of the graph is cached.
C9_Witness ==
    /\ ret # None
    /\ ret[1].val = None
    /\ module_cache # <<>>
    /\ \E m \in DOMAIN modules :
          modules[m].path = Some(ret[1].path) /\ modules[m].status = "failed"

\* C10: the path of every id_to_path_map entry is a key of module_cache.
C10_IdToPathInCache ==
    \A id \in DOMAIN id_to_path_map : id_to_path_map[id] \in DOMAIN module_cache

\* C11: module_cache and builtin_modules only grow and never change an entry,
\* one synthetic module exists per bare specifier imported, and every import
\* of a bare specifier returned the module of its first import.
NoEviction ==
    /\ \A p \in DOMAIN module_cache :
          p \in DOMAIN module_cache' /\ module_cache'[p] = module_cache[p]
    /\ \A s \in DOMAIN builtin_modules :
          s \in DOMAIN builtin_modules' /\ builtin_modules'[s] = builtin_modules[s]
SynthesizedOnce ==
    /\ Cardinality({m \in DOMAIN modules : modules[m].status = "synthetic"})
          = Cardinality(DOMAIN builtin_modules)
    /\ \A i \in DOMAIN resolutions :
          resolutions[i].specifier \in DOMAIN builtin_modules =>
              resolutions[i].module = Some(builtin_modules[resolutions[i].specifier])
C11_NoEviction == []SynthesizedOnce /\ [][NoEviction]_vars

\* C11 witness: fs was imported a second time, by another module, while a
\* user module is cached.
C11_Witness ==
    /\ module_cache # <<>>
    /\ \E i \in DOMAIN resolutions : \E j \in DOMAIN resolutions :
          /\ i < j
          /\ resolutions[i].specifier = Fs
          /\ resolutions[j].specifier = Fs

\* A resolution returned a synthetic (built-in) module.
IsBuiltinResolution(r) ==
    r.module # None /\ modules[r.module[1]].status = "synthetic"

\* C12 (as claimed): a specifier is resolved as a user module exactly when it
\* starts with "./" or with "/"; every other one gets a built-in module.
C12_DotSlashTaxonomy ==
    \A i \in DOMAIN resolutions :
        resolutions[i].specifier.prefix \in {"./", "/"}
            <=> ~IsBuiltinResolution(resolutions[i])

\* C12 (amended): a specifier is resolved as a user module exactly when it
\* starts with "." (so "./" and "../") or with "/".
C12_DotOrSlashTaxonomy ==
    \A i \in DOMAIN resolutions :
        resolutions[i].specifier.prefix \in {"./", "../", "/"}
            <=> ~IsBuiltinResolution(resolutions[i])

\* C12 witness: "../c.js" was resolved to the user module /c.js, and a bare
\* specifier to a built-in module.
C12_Witness ==
    /\ \E i \in DOMAIN resolutions :
          /\ resolutions[i].specifier.prefix = "../"
          /\ resolutions[i].module # None
          /\ modules[resolutions[i].module[1]].path = Some(Path(RootDir, "c", "js"))
    /\ \E i \in DOMAIN resolutions : IsBuiltinResolution(resolutions[i])

\* C13: when the exact path join(d, s) exists, it is the path handed to
\* get_or_compile_module.
C13_ExactPathFirst ==
    (callee # None /\ stack # <<>>) =>
        LET s == fs[Top.path].imports[Top.idx]
            exact == Canonicalize(Join(Parent(Top.path), s))
        IN  exact # None => callee = exact

\* C14: the module a resolution returns depends on the referrer's directory,
\* the specifier and the file system only: two resolutions of the same pair
\* returned the same, and a user module returned is the one of the first
\* candidate path that exists.
C14_ResolutionStability ==
    /\ \A i \in DOMAIN resolutions : \A j \in DOMAIN resolutions :
          (/\ resolutions[i].referrer = resolutions[j].referrer
           /\ resolutions[i].specifier = resolutions[j].specifier)
          => resolutions[i].module = resolutions[j].module
    /\ \A i \in DOMAIN resolutions :
          LET r == resolutions[i] IN
          (r.module # None /\ ~IsBuiltinResolution(r)) =>
              Some(modules[r.module[1]].path[1]) = FindMap(Join(r.referrer, r.specifier))

\* C14 witness: the same specifier was resolved from the same directory twice,
\* first with an empty cache entry (compiled), later from the cache.
C14_Witness ==
    \E i \in DOMAIN resolutions : \E j \in DOMAIN resolutions :
        /\ i < j
        /\ resolutions[i].referrer = resolutions[j].referrer
        /\ resolutions[i].specifier = resolutions[j].specifier
        /\ resolutions[i].specifier.prefix = "./"
        /\ resolutions[j].module # None

\* C15: the module of a bare specifier other than "fs" does not export the
\* File built-in (its evaluation fails); only "fs" does.
C15_UnknownBareFails ==
    \A s \in DOMAIN builtin_modules :
        modules[builtin_modules[s]].default = create_fs <=> s = Fs

\* C16: the global object has a property fs.
C16_GlobalFs == "fs" \in global

\* ---- claims about the File built-in
IsStringWrite(e) == e.op.kind = "write" /\ e.op.arg.type = "string"
IsOtherWrite(e) == e.op.kind = "write" /\ e.op.arg.type # "string"
Seen(e) == e.state \in {"fulfilled", "rejected"}
Raw(e) == worker[e.task[1]].outcome[1].value
Contains(bytes, pos, s) ==
    pos + Len(s) <= Len(bytes) /\ SubSeq(bytes, pos + 1, pos + Len(s)) = s
Completes(t) ==
    t \in DOMAIN worker /\ worker[t].state = "running" /\ worker'[t].state = "done"

\* C17: a write whose argument is no string throws in the calling frame: the
\* script gets no promise, no task is registered or spawned, and the file and
\* its cursor stay as they are; a write of a string puts all its bytes at the
\* cursor and its promise resolves with their number.
WriteThrows ==
    \A i \in DOMAIN observed' :
        (i > Len(observed) /\ IsOtherWrite(observed'[i])) =>
            /\ observed'[i].state = "thrown"
            /\ observed'[i].task = None
            /\ script'.state = "done"
            /\ UNCHANGED <<promises, tasks, worker, NEXT_ID, senders, disk, files>>
WriteWritesAll ==
    \A t \in DOMAIN ops :
        (ops[t].kind = "write" /\ Completes(t)) =>
            LET cursor == files[ops[t].fd].cursor IN
            /\ Contains(disk'.bytes, cursor, ops[t].data)
            /\ files'[ops[t].fd].cursor = cursor + Len(ops[t].data)
WriteSeen ==
    \A i \in DOMAIN observed :
        LET e == observed[i] IN
        /\ IsOtherWrite(e) => e.state = "thrown" /\ e.task = None
        /\ IsStringWrite(e) =>
              /\ e.task # None
              /\ Seen(e) => e.state = "fulfilled"
                            /\ e.value = Some(Num(Len(e.op.arg.text)))
RoundTrip(i) ==
    /\ i + 2 <= Len(observed)
    /\ IsStringWrite(observed[i])
    /\ observed[i + 1].op = Seek(0)
    /\ observed[i + 2].op = Content
    /\ Seen(observed[i + 2])

ContentReadsAll ==
    \A t \in DOMAIN ops :
        (ops[t].kind = "content" /\ Completes(t)) =>
            /\ worker'[t].outcome = Some(Resolve(String(disk.bytes, IsUtf8(disk.bytes))))
            /\ disk' = disk
ContentSeen ==
    \A i \in DOMAIN observed :
        LET e == observed[i] IN
        (e.op = Content /\ Seen(e)) =>
            /\ e.state = "fulfilled"
            /\ e.value[1].text = IF IsUtf8(Raw(e).bytes) THEN Raw(e).bytes ELSE <<>>
C20_OpenFileRejection ==
    /\ \A r \in DOMAIN handles :
          promises[r].state = "rejected" =>
              /\ handles[r].mapped = 0
              /\ handles[r].slot = None
              /\ files = <<>>
              /\ handles[r].state \in {"pending", "rejected"}
    /\ \A i \in DOMAIN observed :
          LET e == observed[i] IN
          (e.op = OpenFile /\ Seen(e) /\ worker[e.task[1]].outcome[1].arm = "Reject") =>
              e.state = "rejected" /\ e.value = Some(Str(ENOENT))

\* C20 witness: the script has seen openFile reject.
C20_Witness ==
    \E i \in DOMAIN observed :
        observed[i].op = OpenFile /\ observed[i].state = "rejected"

\* C21: when the entry module exports no main, or a main that is not callable,
\* execute ends right after the evaluation: main was not called (no result),
\* the event loop was never entered, no completion was received and no promise
\* was settled. Only a main that is a function lets execute go on.
C21_MissingMainAborts ==
    /\ (main_fn # None /\ main_fn # Some("function")) =>
          /\ pc = "aborted"
          /\ result = None
          /\ received = <<>>
          /\ settled = <<>>
          /\ \A r \in DOMAIN promises : promises[r].state = "pending"
    /\ pc \in {"main", "recv", "checkpoint", "returned"} => main_fn = Some("function")

\* execute ended on a main that is not callable while a completion of a task
\* the evaluation created waits in the channel.
C21_Witness ==
    /\ pc = "aborted"
    /\ main_fn = Some("not_callable")
    /\ channel # <<>>

\* C23: the ids generate_task_id returns are pairwise distinct, and a call that
\* starts after another call has returned gets the larger id, whichever threads
\* make the calls and however they interleave.
C23_UniqueIncreasingIds ==
    \A i, j \in DOMAIN id_calls.returned :
        LET a == id_calls.returned[i]
            b == id_calls.returned[j]
        IN  /\ i # j => a.id # b.id
            /\ b.started >= i => b.id > a.id

\* Two threads had calls in flight at the same time and both have returned.
C23_Witness ==
    \E i, j \in DOMAIN id_calls.returned :
        /\ i < j
        /\ id_calls.returned[i].thread # id_calls.returned[j].thread
        /\ id_calls.returned[j].started < i
        /\ Len(id_calls.returned) = MaxCalls

\* C24: the channel never holds more undelivered messages than its capacity; a
\* task whose future completed while the channel is full keeps its message
\* until the channel takes it; and every message a task has sent is either
\* still queued, in the order sent and with the outcome of its task, or was
\* dequeued: none is dropped or overwritten, also before the loop receives.
Queued == [i \in DOMAIN channel |-> channel[i].task_id]
C24_BoundedChannel ==
    /\ Len(channel) <= ChannelCapacity
    /\ Arrived = received \o Queued
    /\ \A i \in DOMAIN channel :
          worker[channel[i].task_id].outcome = Some(channel[i].payload)
    /\ \A t \in DOMAIN worker :
          /\ worker[t].state = "sent" <=> t \in Range(Arrived)
          /\ worker[t].state = "done" => worker[t].outcome # None

\* Before the loop receives anything, the channel is full and another task has
\* completed and waits for room.
C24_Witness ==
    /\ pc \in {"evaluate", "main"}
    /\ Len(channel) = ChannelCapacity
    /\ \E t \in DOMAIN worker : worker[t].state = "done"

\* C30: every message in the channel, and so every message the loop dequeues,
\* names a task that still has its entry in the registry, and so does every
\* spawned task that has not sent yet; no task id is queued or dequeued twice.
C30_NoOrphanMessage ==
    /\ \A i \in DOMAIN channel : channel[i].task_id \in DOMAIN tasks
    /\ \A t \in DOMAIN worker :
          worker[t].state \in {"running", "done"} => t \in DOMAIN tasks
    /\ \A i, j \in DOMAIN Arrived : i # j => Arrived[i] # Arrived[j]

\* The loop is about to dequeue a message after it has settled another one.
C30_Witness ==
    /\ pc = "recv"
    /\ channel # <<>>
    /\ settled # <<>>

\* C22: when the loop dequeues a message whose task id has no entry in the
\* registry, the registry is left as it was, no promise changes, no microtask
\* is enqueued, and the loop is back at recv for the next message.
IsOrphan(message) == message.task_id \notin DOMAIN tasks
C22_OrphanDropped ==
    [][(received' # received /\ IsOrphan(Head(channel))) =>
          /\ tasks' = tasks
          /\ promises' = promises
          /\ microtasks' = microtasks
          /\ settled' = settled
          /\ channel' = Tail(channel)
          /\ pc' = "recv"]_vars

\* A message without an entry was dequeued, and the message after it settled
\* the promise of its task.
C22_Witness ==
    /\ Len(received) = 3
    /\ received[2] = 0
    /\ settled = <<0, 1>>
    /\ promises[1].state = "pending"
    /\ promises[3].state # "pending"

\* C25: when the engine asks for the next import of a referrer that has no
\* entry in id_to_path_map, a specifier that starts with "." or "/" resolves to
\* nothing, no file is read, no nested load starts and the three maps are left
\* as they were; a bare specifier resolves to its built-in module all the same.
MissingReferrerCall ==
    /\ Idle
    /\ stack # <<>>
    /\ Top.module \notin DOMAIN id_to_path_map
    /\ Top.idx <= Len(fs[Top.path].imports)
NextSpecifier == fs[Top.path].imports[Top.idx]
IsUserSpecifier(s) == s.prefix \in {"./", "../", ".", "/"}
C25_MissingReferrer ==
    [][MissingReferrerCall =>
          /\ Len(resolutions') = Len(resolutions) + 1
          /\ resolutions'[Len(resolutions')].specifier = NextSpecifier
          /\ IF IsUserSpecifier(NextSpecifier)
             THEN /\ resolutions'[Len(resolutions')].module = None
                  /\ readCount' = readCount
                  /\ callee' = None
                  /\ id_to_path_map' = id_to_path_map
                  /\ module_cache' = module_cache
                  /\ builtin_modules' = builtin_modules
             ELSE /\ resolutions'[Len(resolutions')].module # None
                  /\ resolutions'[Len(resolutions')].module
                        = Some(builtin_modules'[NextSpecifier])]_vars

\* The referrer had no entry: its bare import got the built-in module, its next
\* import, of a file that exists, got nothing, and nothing was read or cached.
C25_Witness ==
    /\ id_to_path_map = <<>>
    /\ Len(resolutions) = 2
    /\ resolutions[1].module # None
    /\ resolutions[2].specifier = Specifier("./", "b", "js")
    /\ resolutions[2].module = None
    /\ fs[Path(AppDir, "b", "js")].status = "ok"
    /\ readCount[Path(AppDir, "b", "js")] = 0
    /\ module_cache = <<>>

\* C26: every module the loader compiled from a file has its entry in
\* id_to_path_map from then on, so the import.meta initializer always finds
\* it; the dirname it sets is the parent directory of the path recorded for
\* the module, which is the path the module was compiled from.
C26_ImportMetaDirname ==
    /\ \A m \in DOMAIN modules :
          modules[m].path # None =>
              m \in DOMAIN id_to_path_map /\ modules[m].path = Some(id_to_path_map[m])
    /\ \A m \in DOMAIN import_meta :
          /\ m \in DOMAIN id_to_path_map
          /\ import_meta[m] = Some(Parent(id_to_path_map[m]))

\* Two modules of one graph got different dirnames.
C26_Witness ==
    \E m, n \in DOMAIN import_meta :
        /\ import_meta[m] = Some(AppDir)
        /\ import_meta[n] = Some(RootDir)

\* C28: loading terminates on every finite import graph, cycles included:
\* create_first_module returns, so execute never ends inside the nested
\* get_or_compile_module calls with the native stack used up, and while it
\* loads, no file is being instantiated in two activations at once.
C28_LoadingTerminates ==
    /\ pc = "aborted" => stack = <<>>
    /\ \A i, j \in DOMAIN stack : i # j => stack[i].path # stack[j].path

\* C27: the position a seek call asks for is its argument reduced modulo
\* 2^32 (the modulus of the model) when the argument is a number and 0 when it
\* is not, so it lies in [0, modulus - 1]; the future moves the cursor to that
\* position from the start of the file, leaves the bytes alone and completes
\* with undefined, which is what a script that awaits the promise sees.
Congruent(n, pos) ==
    \E k \in (0 - 2)..2 : n = pos + k * Uint32Modulus
SeekPosition ==
    \A i \in DOMAIN observed :
        LET e == observed[i] IN
        e.op.kind = "seek" =>
            /\ e.task # None
            /\ ops[e.task[1]].pos \in 0..(Uint32Modulus - 1)
            /\ IF e.op.arg.type = "number"
               THEN Congruent(e.op.arg.f64, ops[e.task[1]].pos)
               ELSE ops[e.task[1]].pos = 0
            /\ Seen(e) => e.state = "fulfilled" /\ e.value = Some(Undef)
SeekMoves ==
    \A t \in DOMAIN ops :
        (ops[t].kind = "seek" /\ Completes(t)) =>
            /\ files'[ops[t].fd].cursor = ops[t].pos
            /\ disk' = disk
            /\ worker'[t].outcome = Some(Resolve(Undefined))
Inside(t) == worker[t].state = "accessing"
C29_MutualExclusion ==
    \A t, u \in DOMAIN ops :
        (t # u /\ ops[t].fd = ops[u].fd /\ Inside(t)) => ~Inside(u)

\* C31: an instance is the value of the promise openFile returned only once
\* promise_mapper has stored the native file in its slot 0, and the script has
\* no handle but such a value; so whenever the script calls content, write or
\* seek, the slot of the handle it calls them on is filled.
IsMethod(op) == op.kind \in {"content", "write", "seek"}
HandleHasFile ==
    /\ \A r \in DOMAIN handles :
          handles[r].value # None /\ handles[r].value[1].type = "object" =>
              /\ handles[r].value[1] = Instance(r)
              /\ handles[r].state = "fulfilled"
              /\ promises[r].state = "fulfilled"
              /\ handles[r].slot # None
    /\ script.handle # None =>
          /\ script.handle[1] \in DOMAIN handles
          /\ handles[script.handle[1]].value = Some(Instance(script.handle[1]))
          /\ handles[script.handle[1]].slot # None
          /\ observed[1].op = OpenFile /\ observed[1].state = "fulfilled"
          /\ observed[1].value = Some(Instance(script.handle[1]))
MethodOnHandle ==
    (Len(observed') > Len(observed) /\ IsMethod(observed'[Len(observed')].op)) =>
        /\ script'.handle # None
        /\ handles[script'.handle[1]].slot # None
C31_HandleSlotFilled == []HandleHasFile /\ [][MethodOnHandle]_vars

\* The script called content on the handle it got and saw it resolve.
C31_Witness ==
    /\ script.handle # None
    /\ \E i \in DOMAIN observed :
          observed[i].op = Content /\ observed[i].state = "fulfilled"

\* C32: the futures of seek and content leave the bytes of the file as they
\* are; seek changes the cursor only, content leaves the cursor at the end of
\* the file; so the write a script awaits right after content() puts its bytes
\* after the last byte of the file, wherever the cursor was before content().
TaskOf(i) == observed[i].task[1]
SeekContentFrame ==
    \A t \in DOMAIN ops :
        Completes(t) =>
            /\ ops[t].kind \in {"seek", "content"} => disk' = disk
            /\ ops[t].kind = "seek" => files'[ops[t].fd].cursor = ops[t].pos
            /\ ops[t].kind = "content" => files'[ops[t].fd].cursor = Len(disk.bytes)
WriteAfterContentAppends ==
    \A i \in DOMAIN observed :
        (/\ i > 1
         /\ observed[i - 1].op = Content
         /\ IsStringWrite(observed[i])
         /\ Completes(TaskOf(i))) =>
            /\ observed[i].cursor = Len(disk.bytes)
            /\ disk'.bytes = disk.bytes \o observed[i].op.arg.text
legacy_run_event_loop ==
    /\ LoopRunning
    /\ Len(legacy.received) < Len(Arrived)
    /\ LET id == Arrived[Len(legacy.received) + 1]
           payload == worker[id].outcome[1]
       IN
       IF id \in DOMAIN worker /\ id \notin Range(legacy.settled)
       THEN LET r == worker[id].promise IN
            legacy' = [received |-> Append(legacy.received, id),
                       settled |-> Append(legacy.settled, id),
                       promises |-> Put(legacy.promises, r,
                           [state |-> settle(payload),
                            value |-> Some(into_v8(payload.value))]),
                       microtasks |-> legacy.microtasks \o Reactions(r, id)]
       ELSE legacy' = [legacy EXCEPT !.received = Append(@, id)]
    /\ UNCHANGED <<pc, entry, global, loaderVars, asyncVars, fileVars,
                   main_fn, id_calls, import_meta>>

EquivNext ==
    \/ Next
    \/ legacy_run_event_loop

EquivSpec == Init /\ [][EquivNext]_vars

\* C33: when both loops have dequeued the same messages and are about to
\* dequeue the next one, they have settled the same promises, in the same
\* order and with the same state and value, and the same continuations are
\* still waiting to run (in src/builtin/async_task.rs: none).
SettledPromises == {r \in DOMAIN promises : promises[r].state # "pending"}
SameSettlements ==
    /\ legacy.settled = settled
    /\ DOMAIN legacy.promises = SettledPromises
    /\ \A r \in SettledPromises :
          /\ legacy.promises[r].state = promises[r].state
          /\ legacy.promises[r].value = promises[r].value
====
